---- MODULE Spec2Model ----
(***************************************************************************)
(* Model of pixels-egui-framebuffer: the gradient generator and the EXR    *)
(* codec (src/src/image.rs), the application state with its draw           *)
(* operation and the winit event loop (src/src/main.rs), and the egui      *)
(* control panel (src/src/gui.rs).                                         *)
(*                                                                         *)
(* f32 values are IEEE 754 binary32 values and the four operations round   *)
(* to nearest, ties to even.  Buffers are functions over 0 .. len-1, so    *)
(* that indices are the source's indices.                                  *)
(***************************************************************************)
EXTENDS Integers, Sequences, FiniteSets, TLC

(* ------------------------------ bounds -------------------------------- *)

\* RENDER_BUFFER_WIDTH ranges over 1 .. MaxWidth
MaxWidth == 2

\* RENDER_BUFFER_HEIGHT ranges over 1 .. MaxHeight
MaxHeight == 2

\* the call counters kept for the properties saturate at MaxCount
MaxCount == 2

(* ---------------------------- f32 arithmetic --------------------------- *)

Abs(n) == IF n < 0 THEN -n ELSE n

Min(a, b) == IF a <= b THEN a ELSE b

Max(a, b) == IF a >= b THEN a ELSE b

\* the powers of two 2^0 .. 2^30
Pow2Table ==
    <<1, 2, 4, 8, 16, 32, 64, 128, 256, 512, 1024, 2048, 4096, 8192, 16384,
      32768, 65536, 131072, 262144, 524288, 1048576, 2097152, 4194304,
      8388608, 16777216, 33554432, 67108864, 134217728, 268435456,
      536870912, 1073741824>>

Pow2(i) == Pow2Table[i + 1]

\* the number of binary digits of n < 2^4, n < 2^8 and n < 2^16
bit_length_4[n \in Nat] ==
    IF n < 4 THEN (IF n < 2 THEN n ELSE 2) ELSE (IF n < 8 THEN 3 ELSE 4)

bit_length_8[n \in Nat] ==
    (IF n < 16 THEN 0 ELSE 4) + bit_length_4[IF n < 16 THEN n ELSE n \div 16]

bit_length_16[n \in Nat] ==
    (IF n < 256 THEN 0 ELSE 8) + bit_length_8[IF n < 256 THEN n ELSE n \div 256]

\* the number of binary digits of n >= 0
bit_length[n \in Nat] ==
    (IF n < 65536 THEN 0 ELSE 16)
        + bit_length_16[IF n < 65536 THEN n ELSE n \div 65536]

BitLen(n) == bit_length[n]

\* an f32 value.  A finite value is (-1)^s * m * 2^e with m odd, or m = 0 and
\* e = 0 for the two zeros; the infinities carry their sign; there is one NaN.
F32Values ==
    {x \in [kind : {"finite", "inf", "nan"}, s : {0, 1},
            m : 0 .. 16777215, e : -149 .. 127] :
        /\ x.kind = "finite" =>
              IF x.m = 0 THEN x.e = 0
              ELSE /\ x.m % 2 = 1
                   /\ (x.e <= 104 \/ BitLen(x.m) + x.e <= 128)
        /\ x.kind = "inf" => (x.m = 0 /\ x.e = 0)
        /\ x.kind = "nan" => (x.s = 0 /\ x.m = 0 /\ x.e = 0)}

NaN == [kind |-> "nan", s |-> 0, m |-> 0, e |-> 0]

Inf(s) == [kind |-> "inf", s |-> s, m |-> 0, e |-> 0]

Zero(s) == [kind |-> "finite", s |-> s, m |-> 0, e |-> 0]

IsZero(x) == x.kind = "finite" /\ x.m = 0

\* the finite value (-1)^s * m * 2^e, m > 0, with m made odd
odd_value[s \in {0, 1}, m \in Nat, e \in Int] ==
    IF m % 65536 = 0 THEN odd_value[s, m \div 65536, e + 16]
    ELSE IF m % 256 = 0 THEN odd_value[s, m \div 256, e + 8]
    ELSE IF m % 16 = 0 THEN odd_value[s, m \div 16, e + 4]
    ELSE IF m % 2 = 0 THEN odd_value[s, m \div 2, e + 1]
    ELSE [kind |-> "finite", s |-> s, m |-> m, e |-> e]

\* the f32 of sign s and magnitude k * 2^q, k <= 2^24; infinite from 2^128 on
pack[s \in {0, 1}, k \in Nat, q \in Int] ==
    IF k = 0 THEN Zero(s)
    ELSE IF q >= 104 /\ (q > 128 \/ k >= Pow2(128 - q)) THEN Inf(s)
    ELSE odd_value[s, k, q]

\* the digits kept, rounded up when the digits dropped are above half a unit,
\* or are half a unit and the digits kept are odd
round_kept[s \in {0, 1}, kept \in Nat, rem \in Nat, half \in Nat, sticky \in BOOLEAN, q \in Int] ==
    pack[s,
         IF rem > half \/ (rem = half /\ (sticky \/ kept % 2 = 1))
         THEN kept + 1
         ELSE kept,
         q]

\* M * 2^E of L binary digits with its last r digits dropped; none are
\* dropped when r <= 0
round_shift[s \in {0, 1}, M \in Nat, E \in Int, sticky \in BOOLEAN, L \in Nat, r \in Int] ==
    IF r > L THEN Zero(s)
    ELSE IF r <= 0 THEN round_kept[s, M, 0, 1, FALSE, E]
    ELSE round_kept[s, M \div Pow2(r), M % Pow2(r), Pow2(r - 1), sticky, E + r]

\* M * 2^E of L binary digits, to 24 digits, fewer below 2^-126
round_digits[s \in {0, 1}, M \in Nat, E \in Int, sticky \in BOOLEAN, L \in Nat] ==
    round_shift[s, M, E, sticky, L, Max(E + L - 24, -149) - E]

\* round to nearest, ties to even: the f32 nearest to (-1)^s * M * 2^E, or,
\* with sticky, to a value strictly between that of M and that of M + 1
round_pack[s \in {0, 1}, M \in Nat, E \in Int, sticky \in BOOLEAN] ==
    round_digits[s, M, E, sticky, BitLen(M)]

\* significand and exponent of a finite non-zero value: M * 2^E
Normalized == [M : Nat, E : Int]

\* m * 2^e with m shifted left by `shift` digits
shift_left[m \in Nat, e \in Int, shift \in Nat] ==
    [M |-> m * Pow2(shift), E |-> e - shift]

\* a finite non-zero value as M * 2^E with 2^23 <= M < 2^24
normalized[x \in F32Values] == shift_left[x.m, x.e, 24 - BitLen(x.m)]

\* `n as f32` for an integer n
F32(n) == round_pack[IF n < 0 THEN 1 ELSE 0, Abs(n), 0, FALSE]

fneg[a \in F32Values] ==
    IF a.kind = "nan" THEN a ELSE [a EXCEPT !.s = 1 - a.s]

\* B * 2^E of sign sb plus `shifted` * 2^E of sign ss, B >= shifted; with
\* sticky the second magnitude is strictly between shifted and shifted + 1
add_parts[sb \in {0, 1}, ss \in {0, 1}, B \in Nat, E \in Int, shifted \in Nat, sticky \in BOOLEAN] ==
    IF sb # ss /\ ~sticky /\ B = shifted THEN Zero(0)
    ELSE round_pack[sb,
                    IF sb = ss THEN B + shifted
                    ELSE IF sticky THEN B - shifted - 1
                    ELSE B - shifted,
                    E, sticky]

\* the smaller magnitude S * 2^(E - d) brought to the exponent E
add_aligned[sb \in {0, 1}, ss \in {0, 1}, B \in Nat, E \in Int, S \in Nat, d \in Nat] ==
    add_parts[sb, ss, B, E,
              IF d > 27 THEN 0 ELSE S \div Pow2(d),
              IF d > 27 THEN TRUE ELSE S % Pow2(d) # 0]

\* the sum of two normalized values, x of the larger magnitude, computed
\* with three more binary digits
add_normalized[sb \in {0, 1}, ss \in {0, 1}, x \in Normalized, y \in Normalized] ==
    add_aligned[sb, ss, x.M * 8, x.E - 3, y.M * 8, x.E - y.E]

normalized_ge[x \in Normalized, y \in Normalized] ==
    x.E > y.E \/ (x.E = y.E /\ x.M >= y.M)

\* the sum of two normalized values of signs sa and sb: the one of larger
\* magnitude goes first
add_magnitudes[sa \in {0, 1}, sb \in {0, 1}, x \in Normalized, y \in Normalized] ==
    add_normalized[IF normalized_ge[x, y] THEN sa ELSE sb,
                   IF normalized_ge[x, y] THEN sb ELSE sa,
                   IF normalized_ge[x, y] THEN x ELSE y,
                   IF normalized_ge[x, y] THEN y ELSE x]

\* |a| >= |b| for finite non-zero values
magnitude_ge[a \in F32Values, b \in F32Values] ==
    normalized_ge[normalized[a], normalized[b]]

\* a + b
fadd[a \in F32Values, b \in F32Values] ==
    IF a.kind = "nan" \/ b.kind = "nan" THEN NaN
    ELSE IF a.kind = "inf"
    THEN (IF b.kind = "inf" /\ b.s # a.s THEN NaN ELSE a)
    ELSE IF b.kind = "inf" THEN b
    ELSE IF IsZero(a)
    THEN (IF IsZero(b) THEN Zero(IF a.s = b.s THEN a.s ELSE 0) ELSE b)
    ELSE IF IsZero(b) THEN a
    ELSE add_magnitudes[a.s, b.s, normalized[a], normalized[b]]

\* a - b
fsub[a \in F32Values, b \in F32Values] == fadd[a, fneg[b]]

\* high * 2^24 + mid * 2^12 + low, times 2^E, rounded
mul_sum[s \in {0, 1}, E \in Int, high \in Nat, mid \in Nat, t \in Nat] ==
    round_pack[s,
               (high + (mid \div 4096) + (t \div 16777216)) * 4
                   + ((t % 16777216) \div 4194304),
               E + 22, t % 4194304 # 0]

\* the product of two 24-digit numbers from the products of their halves
mul_parts[s \in {0, 1}, E \in Int, high \in Nat, mid \in Nat, low \in Nat] ==
    mul_sum[s, E, high, mid, low + (mid % 4096) * 4096]

\* (a1 * 2^12 + a0) * (b1 * 2^12 + b0) * 2^E
mul_halves[s \in {0, 1}, E \in Int, a1 \in Nat, a0 \in Nat, b1 \in Nat, b0 \in Nat] ==
    mul_parts[s, E, a1 * b1, a1 * b0 + a0 * b1, a0 * b0]

\* the product of two normalized values
mul_normalized[s \in {0, 1}, x \in Normalized, y \in Normalized] ==
    mul_halves[s, x.E + y.E, x.M \div 4096, x.M % 4096,
               y.M \div 4096, y.M % 4096]

\* a * b
fmul[a \in F32Values, b \in F32Values] ==
    IF a.kind = "nan" \/ b.kind = "nan" THEN NaN
    ELSE IF a.kind = "inf" \/ b.kind = "inf"
    THEN (IF IsZero(a) \/ IsZero(b) THEN NaN ELSE Inf((a.s + b.s) % 2))
    ELSE IF IsZero(a) \/ IsZero(b) THEN Zero((a.s + b.s) % 2)
    ELSE mul_normalized[(a.s + b.s) % 2, normalized[a], normalized[b]]

\* the next digits of a long division: <<quotient, remainder>> after `bits`
\* more binary digits, from a quotient qr[1] and a remainder qr[2] < divisor
divide_step[qr \in Nat \X Nat, divisor \in Nat, bits \in Nat] ==
    <<qr[1] * Pow2(bits) + ((qr[2] * Pow2(bits)) \div divisor),
      (qr[2] * Pow2(bits)) % divisor>>

\* the quotient of a division, times 2^E, rounded
div_round[s \in {0, 1}, E \in Int, qr \in Nat \X Nat] ==
    round_pack[s, qr[1], E, qr[2] # 0]

\* the quotient of two normalized values, computed to 29 more binary digits
div_normalized[s \in {0, 1}, x \in Normalized, y \in Normalized] ==
    div_round[s, x.E - y.E - 29,
        divide_step[
          divide_step[
            divide_step[
              divide_step[
                divide_step[<<x.M \div y.M, x.M % y.M>>, y.M, 6],
                y.M, 6],
              y.M, 6],
            y.M, 6],
          y.M, 5]]

\* a / b
fdiv[a \in F32Values, b \in F32Values] ==
    IF a.kind = "nan" \/ b.kind = "nan" THEN NaN
    ELSE IF a.kind = "inf"
    THEN (IF b.kind = "inf" THEN NaN ELSE Inf((a.s + b.s) % 2))
    ELSE IF b.kind = "inf" THEN Zero((a.s + b.s) % 2)
    ELSE IF IsZero(b)
    THEN (IF IsZero(a) THEN NaN ELSE Inf((a.s + b.s) % 2))
    ELSE IF IsZero(a) THEN Zero((a.s + b.s) % 2)
    ELSE div_normalized[(a.s + b.s) % 2, normalized[a], normalized[b]]

\* a <= b; no comparison with NaN holds, and the two zeros are equal
fle[a \in F32Values, b \in F32Values] ==
    IF a.kind = "nan" \/ b.kind = "nan" THEN FALSE
    ELSE IF IsZero(a) /\ IsZero(b) THEN TRUE
    ELSE IF a.s # b.s THEN a.s = 1
    ELSE IF a.kind = "inf" THEN (a.s = 1 \/ b.kind = "inf")
    ELSE IF b.kind = "inf" THEN b.s = 0
    ELSE IF IsZero(a) THEN b.s = 0
    ELSE IF IsZero(b) THEN a.s = 1
    ELSE magnitude_ge[IF a.s = 0 THEN b ELSE a, IF a.s = 0 THEN a ELSE b]

FAdd(a, b) == fadd[a, b]
FSub(a, b) == fsub[a, b]
FMul(a, b) == fmul[a, b]
FDiv(a, b) == fdiv[a, b]
FLe(a, b) == fle[a, b]

\* the f32 nearest to n / d, for integers n and d
Rat(n, d) == fdiv[F32(n), F32(d)]

Bump(n) == Min(n + 1, MaxCount)

(* ------------------------------ constants ------------------------------ *)

\* crate::constants::RENDER_BUFFER_SIZE for a width w and a height h
RENDER_BUFFER_SIZE(w, h) == w * h * 4

(* --------------------------- image.rs: generator ----------------------- *)

\* Linear remap a value in one range into another range (no clamping)
fit_range(x, imin, imax, omin, omax) ==
    FAdd(FDiv(FMul(FSub(omax, omin), FSub(x, imin)), FSub(imax, imin)), omin)

\* color::acescg::<Scene>(r, g, b)
acescg(r, g, b) == [r |-> r, g |-> g, b |-> b]

\* Color::blend: a + (b - a) * t, per component
blend(a, b, t) ==
    [r |-> FAdd(a.r, FMul(FSub(b.r, a.r), t)),
     g |-> FAdd(a.g, FMul(FSub(b.g, a.g), t)),
     b |-> FAdd(a.b, FMul(FSub(b.b, a.b), t))]

\* the body of the two loops for one pixel (x, y)
final_color(x, y, w, h) ==
    LET u == fit_range(F32(x), F32(0), F32(w), F32(0), F32(1))
        v == fit_range(F32(y), F32(0), F32(h), F32(0), F32(1))
        red == acescg(F32(1), F32(0), F32(0))
        blue == acescg(F32(0), F32(0), F32(1))
        green == acescg(F32(0), F32(1), F32(0))
        h_blended == blend(red, green, u)
        v_blended == blend(red, blue, v)
    IN  blend(h_blended, v_blended, Rat(1, 2))

\* final_color of every pixel of every size within the bounds
final_colors ==
    [w \in 1 .. MaxWidth |-> [h \in 1 .. MaxHeight |->
        [x \in 0 .. (w - 1) |-> [y \in 0 .. (h - 1) |-> final_color(x, y, w, h)]]]]

\* the colour the iteration for pixel (x, y) computes
pixel_color(x, y, w, h) ==
    final_colors[w][h][x][y]

\* an iteration that stores the colour and leaves the coverage as it was
store_pixel_rgb_only(render_buffer, index, rendered_color) ==
    [i \in DOMAIN render_buffer |->
        IF i = index + 0 THEN rendered_color.r
        ELSE IF i = index + 1 THEN rendered_color.g
        ELSE IF i = index + 2 THEN rendered_color.b
        ELSE render_buffer[i]]

\* the four stores of one iteration at the write index
store_pixel(render_buffer, index, rendered_color) ==
    [i \in DOMAIN render_buffer |->
        IF i = index + 0 THEN rendered_color.r
        ELSE IF i = index + 1 THEN rendered_color.g
        ELSE IF i = index + 2 THEN rendered_color.b
        ELSE IF i = index + 3 THEN F32(1)
        ELSE render_buffer[i]]

\* rows walked top down: for y in 0..RENDER_BUFFER_HEIGHT
loop_y_forward(k, w, h) == k \div w

\* the y the k-th iteration runs with: for y in (0..RENDER_BUFFER_HEIGHT).rev()
loop_y(k, w, h) == (h - 1) - (k \div w)

\* the x the k-th iteration runs with: for x in 0..RENDER_BUFFER_WIDTH
loop_x(k, w, h) == k % w

\* a write index that advances by the three colour elements only
next_index_rgb(index) == index + 3

\* index += 4
next_index(index) == index + 4

\* the buffer indices one iteration stores into: index + 0 .. index + 3
stored_indices(index) == {index + 0, index + 1, index + 2, index + 3}

\* the iterations k, k+1, ... of the nested loops; index is the write index
RECURSIVE render_loop(_, _, _, _, _)
render_loop(render_buffer, index, k, w, h) ==
    IF k = w * h
    THEN render_buffer
    ELSE render_loop(
            store_pixel(render_buffer, index,
                        pixel_color(loop_x(k, w, h), loop_y(k, w, h), w, h)),
            next_index(index), k + 1, w, h)

render_bg_image(render_buffer, w, h) == render_loop(render_buffer, 0, 0, w, h)

(* --------------------------- main.rs: draw ----------------------------- *)

\* a byte of known value
u8(n) == [u8 |-> n]

\* PixelsBuilder::new(width, height, _) with a 4-byte texture format:
\* the frame get_frame_mut() hands out, zero-filled
new_frame(w, h) == [i \in 0 .. (w * h * 4 - 1) |-> u8(0)]

\* the integer part of a finite x = m * 2^e > 0, saturating at 255
floor_to_255(x) ==
    IF x.e >= 0
    THEN (IF x.e >= 8 \/ x.m >= 256 THEN 255 ELSE Min(x.m * Pow2(x.e), 255))
    ELSE IF -x.e > 30 THEN 0
    ELSE Min(x.m \div Pow2(-x.e), 255)

\* `as u8` on an f32: truncation toward zero, saturating at 0 and 255, NaN to 0
as_u8(x) ==
    IF x.kind = "nan" THEN 0
    ELSE IF x.s = 1 \/ IsZero(x) THEN 0
    ELSE IF x.kind = "inf" THEN 255
    ELSE floor_to_255(x)

\* a conversion to 8 bits that wraps around modulo 256
alpha_u8_wrapping(alpha) ==
    LET scaled == FMul(F32(255), alpha)
        magnitude == IF scaled.kind # "finite" \/ scaled.e >= 8 THEN 0
                     ELSE IF scaled.e >= 0
                     THEN ((scaled.m % 256) * Pow2(scaled.e)) % 256
                     ELSE IF -scaled.e > 30 THEN 0
                     ELSE (scaled.m \div Pow2(-scaled.e)) % 256
    IN  IF scaled.kind = "finite" /\ scaled.s = 1
        THEN (256 - magnitude) % 256
        ELSE magnitude

\* (255 as f32 * alpha) as u8
alpha_u8(alpha) == as_u8(FMul(F32(255), alpha))

\* The colstodian library is not part of the repository.  Each call into it
\* is kept as a term naming the call and its arguments: what a call returns
\* is decided by its arguments, and nothing more is said about it.

\* PerceptualTonemapperParams::default()
PerceptualTonemapperParams_default == "PerceptualTonemapperParams::default()"

\* PerceptualTonemapper::tonemap(color, params)
tonemap(color, params) ==
    [call |-> "PerceptualTonemapper::tonemap", color |-> color,
     params |-> params]

\* Color::convert into the colour space and state named
convert(color, space) == [call |-> "convert", color |-> color, space |-> space]

\* Color::to_u8: the three bytes of an encoded colour
to_u8(encoded) ==
    [c \in 0 .. 2 |-> [call |-> "to_u8", color |-> encoded, channel |-> c]]

\* the rgba quadruple of one pixel, from the chunk starting at 4 * p
rgba(framebuffer, p) ==
    LET render_pixel == [c \in 0 .. 3 |-> framebuffer[4 * p + c]]
        rendered_color ==
            acescg(render_pixel[0], render_pixel[1], render_pixel[2])
        alpha == render_pixel[3]
        params == PerceptualTonemapperParams_default
        tonemapped ==
            convert(tonemap(rendered_color, params), "Color<AcesCg, Display>")
        encoded == convert(tonemapped, "EncodedSrgb")
        rgb == to_u8(encoded)
    IN  [c \in 0 .. 3 |-> IF c = 3 THEN u8(alpha_u8(alpha)) ELSE rgb[c]]

Len0(buf) == Cardinality(DOMAIN buf)

\* the number of pairs zip(frame.chunks_exact_mut(4), framebuffer.chunks_exact(4)) yields
zip_len(framebuffer, frame) == Min(Len0(frame) \div 4, Len0(framebuffer) \div 4)

\* a present that adds the alpha onto what the frame held
draw_accumulate(framebuffer, frame) ==
    [i \in DOMAIN frame |->
        IF i < 4 * zip_len(framebuffer, frame)
        THEN IF i % 4 = 3
             THEN u8((frame[i].u8 + rgba(framebuffer, i \div 4)[3].u8) % 256)
             ELSE rgba(framebuffer, i \div 4)[i % 4]
        ELSE frame[i]]

\* ApplicationState::draw: pixel.copy_from_slice(&rgba) for each zipped pair
draw(framebuffer, frame) ==
    [i \in DOMAIN frame |->
        IF i < 4 * zip_len(framebuffer, frame)
        THEN rgba(framebuffer, i \div 4)[i % 4]
        ELSE frame[i]]

\* the frame indices the draw stores into
draw_written(framebuffer, frame) == 0 .. (4 * zip_len(framebuffer, frame) - 1)

\* [black; RENDER_BUFFER_SIZE]
black_buffer(w, h) == [i \in 0 .. (RENDER_BUFFER_SIZE(w, h) - 1) |-> F32(0)]

\* ApplicationState::new; renders counts its render_bg_image calls
ApplicationState_new(w, h) ==
    [framebuffer |-> render_bg_image(black_buffer(w, h), w, h), renders |-> 1]

\* ApplicationState::update: no update logic
update(framebuffer) == framebuffer

(* --------------------------- image.rs: codec --------------------------- *)

\* a codec that takes the fourth element of each chunk for blue
channel_vec_shifted(render_buffer, c) ==
    [k \in 0 .. ((Len0(render_buffer) \div 4) - 1) |->
        render_buffer[4 * k + (IF c = 2 THEN 3 ELSE c)]]

\* the Vec one channel collects: f32_color[c] of every chunk, in order
channel_vec(render_buffer, c) ==
    [k \in 0 .. ((Len0(render_buffer) \div 4) - 1) |-> render_buffer[4 * k + c]]

AnyChannel(name, samples) == [name |-> name, samples |-> samples]

\* the order of channel names AnyChannels::sort sorts by
name_rank(name) == CASE name = "B" -> 0 [] name = "G" -> 1 [] name = "R" -> 2

\* AnyChannels::sort
RECURSIVE sort_channels(_)
sort_channels(list) ==
    IF list = <<>> THEN <<>>
    ELSE LET least == CHOOSE i \in 1 .. Len(list) :
                          \A j \in 1 .. Len(list) :
                              name_rank(list[i].name) <= name_rank(list[j].name)
             rest == [j \in 1 .. (Len(list) - 1) |->
                          IF j < least THEN list[j] ELSE list[j + 1]]
         IN  <<list[least]>> \o sort_channels(rest)

\* the Layer built from the buffer and the dimensions passed in
build_layer(width, height, render_buffer) ==
    LET r_channel == AnyChannel("R", channel_vec(render_buffer, 0))
        g_channel == AnyChannel("G", channel_vec(render_buffer, 1))
        b_channel == AnyChannel("B", channel_vec(render_buffer, 2))
    IN  [resolution |-> <<width, height>>,
         name |-> "rgb",
         comments |-> "Generated by vvzen from Rust",
         owner |-> "vvzen",
         software_name |-> "rust-tracer",
         channels |-> sort_channels(<<r_channel, g_channel, b_channel>>)]

\* a codec that reports success whatever the write returned
write_outcome_swallowed(to_file_ok) == [result |-> "Ok", to_file_calls |-> 1]

\* the match on image.write().to_file(&image_path)
write_outcome(to_file_ok) ==
    [result |-> IF to_file_ok THEN "Ok" ELSE "Err", to_file_calls |-> 1]

\* write_as_exr_image; to_file_ok is what the file write returns
write_as_exr_image(width, height, render_buffer, to_file_ok) ==
    LET out == write_outcome(to_file_ok)
    IN  [image |-> build_layer(width, height, render_buffer),
         result |-> out.result,
         to_file_calls |-> out.to_file_calls]

(* ------------------------------- gui.rs -------------------------------- *)

\* the widgets of the panel a click can land on
Widgets == {"About", "Render", "Close", "Save"}

\* Gui::new: the UI options the panel starts with
Gui_new == [window_open |-> TRUE, should_rerender |-> FALSE]

\* Gui::ui for one egui frame; clicks are the widgets clicked since the last one.
\* The menu bar runs first; both windows show only while window_open holds.
Gui_ui(gui, clicks) ==
    LET after_menu == IF "About" \in clicks THEN TRUE ELSE gui.window_open
        shown == after_menu
    IN  [window_open |->
            IF shown /\ "Close" \in clicks THEN FALSE ELSE after_menu,
         should_rerender |->
            IF shown /\ "Render" \in clicks THEN TRUE ELSE gui.should_rerender]

\* Framework::resize
Framework_resize(screen, w, h) ==
    IF w > 0 /\ h > 0
    THEN [screen EXCEPT !.size_in_pixels = <<w, h>>]
    ELSE screen

\* Framework::scale_factor
Framework_scale_factor(screen, scale) ==
    [screen EXCEPT !.pixels_per_point = scale]

(* ------------------------------- state --------------------------------- *)

VARIABLES
    width,               \* RENDER_BUFFER_WIDTH
    height,              \* RENDER_BUFFER_HEIGHT
    framebuffer,         \* ApplicationState.framebuffer
    frame,               \* the frame of the pixels surface
    incoming,            \* what framebuffer held before any generation pass
    gui,                 \* Framework.gui
    screen_descriptor,   \* Framework.screen_descriptor
    egui_input,          \* clicks egui_state holds for the next egui frame
    input,               \* WinitInputHelper: what this step's events brought
    redraw_requested,    \* window.request_redraw() is pending
    control_flow,        \* *control_flow
    image,               \* the layer the last write_as_exr_image call built
    write_result,        \* what the last write_as_exr_image call returned
    to_file_calls,       \* to_file calls the last write_as_exr_image call made
    to_file_returned,    \* what to_file returned in that call
    other_buffer,        \* a second render buffer, for a second generation pass
    other_rendered,      \* render_bg_image has run on other_buffer
    constructed,         \* framebuffer came from ApplicationState::new
    populate_count,      \* render_bg_image runs on framebuffer, saturating
    draw_count,          \* draw calls, saturating
    drawn_since_populate,\* a draw has run since the last render_bg_image
    written,             \* frame indices the last draw stored into
    draw_result,         \* what the last draw returned
    last_op,             \* the operation that ran last
    pass                 \* a render_bg_image call in progress: its loop position,
                         \* its write index and the stores made to each element

appVars == <<width, height, incoming, framebuffer, frame>>
guiVars == <<gui, screen_descriptor, egui_input>>
loopVars == <<input, redraw_requested, control_flow>>
codecVars == <<image, write_result, to_file_calls, to_file_returned>>
otherVars == <<other_buffer, other_rendered>>
drawVars == <<draw_count, drawn_since_populate, written, draw_result>>

vars == <<appVars, guiVars, loopVars, codecVars, otherVars, drawVars,
          constructed, populate_count, last_op, pass>>

\* window sizes and scale factors the window system may report
WindowSizes == {<<0, 2>>, <<2, 2>>}
ScaleFactors == {2}

\* the size and scale factor the window is created with
InitialWindowSize == <<1, 1>>
InitialScaleFactor == 1

\* WinitInputHelper::new: nothing pressed, no close request, no scale factor
\* and no resize seen
input_new ==
    [quit |-> FALSE, key_pressed_escape |-> FALSE, scale_factor |-> <<>>,
     window_resized |-> <<>>]

\* WinitInputHelper::step, run on Event::NewEvents: the key presses and the
\* resize of the step before are forgotten; a close request, once seen, and
\* the last scale factor seen are kept
input_step(helper) ==
    [helper EXCEPT !.key_pressed_escape = FALSE, !.window_resized = <<>>]

\* no render_bg_image call in progress
pass_none == [running |-> FALSE, k |-> 0, index |-> 0, stores |-> <<>>]

\* main, up to event_loop.run
Init ==
    /\ width \in 1 .. MaxWidth
    /\ height \in 1 .. MaxHeight
    /\ incoming = black_buffer(width, height)
    /\ framebuffer = ApplicationState_new(width, height).framebuffer
    /\ populate_count = ApplicationState_new(width, height).renders
    /\ constructed = TRUE
    /\ frame = new_frame(width, width)
    /\ gui = Gui_new
    /\ screen_descriptor = [size_in_pixels |-> InitialWindowSize,
                            pixels_per_point |-> InitialScaleFactor]
    /\ egui_input = {}
    /\ input = input_new
    /\ redraw_requested = FALSE
    /\ control_flow = "Poll"
    /\ image = <<>>
    /\ write_result = "none"
    /\ to_file_calls = 0
    /\ to_file_returned = "none"
    /\ other_buffer = black_buffer(width, height)
    /\ other_rendered = FALSE
    /\ draw_count = 0
    /\ drawn_since_populate = FALSE
    /\ written = {}
    /\ draw_result = "none"
    /\ last_op = "none"
    /\ pass = pass_none

(* --------------------------- main.rs: event loop ----------------------- *)

\* The closure handles the events in whatever order the window system
\* delivers them; each action below is the closure run on one event. The
\* closure writes *control_flow and never reads it: run on an event after it
\* has set ControlFlow::Exit, it does what it does at any other time.

\* Event::NewEvents: input.update starts a new step
NewEvents ==
    /\ input' = input_step(input)
    /\ last_op' = "new_events"
    /\ UNCHANGED <<appVars, pass, guiVars, redraw_requested, control_flow, codecVars,
                   otherVars, drawVars, constructed, populate_count>>

\* Event::WindowEvent: a close request; input.quit() holds from here on
WindowEvent_Quit ==
    /\ input' = [input EXCEPT !.quit = TRUE]
    /\ last_op' = "window_event"
    /\ UNCHANGED <<appVars, pass, guiVars, redraw_requested, control_flow,
                   codecVars, otherVars, drawVars, constructed, populate_count>>

\* Event::WindowEvent: the Escape key goes down;
\* input.key_pressed(VirtualKeyCode::Escape) holds for this step
WindowEvent_KeyEscape ==
    /\ input' = [input EXCEPT !.key_pressed_escape = TRUE]
    /\ last_op' = "window_event"
    /\ UNCHANGED <<appVars, pass, guiVars, redraw_requested, control_flow,
                   codecVars, otherVars, drawVars, constructed, populate_count>>

\* Event::WindowEvent: the window was resized
WindowEvent_Resized(size) ==
    /\ input' = [input EXCEPT !.window_resized = size]
    /\ last_op' = "window_event"
    /\ UNCHANGED <<appVars, pass, guiVars, redraw_requested, control_flow,
                   codecVars, otherVars, drawVars, constructed, populate_count>>

\* Event::WindowEvent: the scale factor changed
WindowEvent_ScaleFactorChanged(scale) ==
    /\ input' = [input EXCEPT !.scale_factor = <<scale>>]
    /\ last_op' = "window_event"
    /\ UNCHANGED <<appVars, pass, guiVars, redraw_requested, control_flow,
                   codecVars, otherVars, drawVars, constructed, populate_count>>

\* Event::WindowEvent: a click on a widget; framework.handle_event hands it to egui
WindowEvent_Click(widget) ==
    /\ egui_input' = egui_input \cup {widget}
    /\ last_op' = "window_event"
    /\ UNCHANGED <<appVars, pass, gui, screen_descriptor, loopVars, codecVars,
                   otherVars, drawVars, constructed, populate_count>>

\* Event::MainEventsCleared: input.update returns true.
\* resize_ok is what pixels.resize_surface returns.
MainEventsCleared(resize_ok) ==
    /\ last_op' = "update"
    /\ IF input.key_pressed_escape \/ input.quit
       THEN /\ control_flow' = "Exit"
            /\ UNCHANGED <<framebuffer, screen_descriptor, redraw_requested>>
       ELSE LET scaled == IF input.scale_factor # <<>>
                          THEN Framework_scale_factor(screen_descriptor,
                                                      input.scale_factor[1])
                          ELSE screen_descriptor
            IN  IF input.window_resized # <<>> /\ ~resize_ok
                THEN /\ control_flow' = "Exit"
                     /\ screen_descriptor' = scaled
                     /\ UNCHANGED <<framebuffer, redraw_requested>>
                ELSE /\ screen_descriptor' =
                            IF input.window_resized # <<>>
                            THEN Framework_resize(scaled, input.window_resized[1],
                                                  input.window_resized[2])
                            ELSE scaled
                     /\ framebuffer' = update(framebuffer)
                     /\ redraw_requested' = TRUE
                     /\ UNCHANGED control_flow
    /\ UNCHANGED <<width, height, incoming, pass, frame, gui, egui_input, input, codecVars,
                   otherVars, drawVars, constructed, populate_count>>

\* Event::RedrawRequested, asked for by request_redraw or by the window
\* system: draw, prepare egui (which drains the events egui holds), render.
\* render_ok is what pixels.render_with returns.
RedrawRequested(render_ok) ==
    /\ frame' = draw(framebuffer, frame)
    /\ written' = draw_written(framebuffer, frame)
    /\ draw_result' = "unit"
    /\ draw_count' = Bump(draw_count)
    /\ drawn_since_populate' = TRUE
    /\ gui' = Gui_ui(gui, egui_input)
    /\ egui_input' = {}
    /\ control_flow' = IF render_ok THEN control_flow ELSE "Exit"
    /\ redraw_requested' = FALSE
    /\ last_op' = "draw"
    /\ UNCHANGED <<width, height, incoming, pass, framebuffer, screen_descriptor, input,
                   codecVars, otherVars, constructed, populate_count>>

Next ==
    \/ NewEvents
    \/ WindowEvent_Quit
    \/ WindowEvent_KeyEscape
    \/ \E size \in WindowSizes : WindowEvent_Resized(size)
    \/ \E scale \in ScaleFactors : WindowEvent_ScaleFactorChanged(scale)
    \/ \E widget \in Widgets : WindowEvent_Click(widget)
    \/ \E resize_ok \in BOOLEAN : MainEventsCleared(resize_ok)
    \/ \E render_ok \in BOOLEAN : RedrawRequested(render_ok)

Spec == Init /\ [][Next]_vars

\* the event loop keeps delivering its events until the closure has set
\* ControlFlow::Exit
FairSpec ==
    /\ Init /\ [][Next]_vars
    /\ WF_vars(control_flow = "Poll" /\ NewEvents)
    /\ WF_vars(control_flow = "Poll" /\
                  \E resize_ok \in BOOLEAN : MainEventsCleared(resize_ok))
    /\ WF_vars(control_flow = "Poll" /\
                  \E render_ok \in BOOLEAN : RedrawRequested(render_ok))

(* ------------------- the operations applied to any input ---------------- *)

\* f32 values an incoming buffer may hold, in and out of [0, 1]
PriorValues == {Rat(-1, 2), F32(0), Rat(1, 2), Rat(7, 10), F32(1), F32(2)}

\* incoming buffers of n elements: one value throughout, but for one element,
\* which is the first colour element, the first coverage or the last coverage
Priors(n) ==
    {[i \in 0 .. (n - 1) |-> IF i = j THEN d ELSE c] :
        j \in {0, 3, n - 1}, c \in PriorValues, d \in PriorValues}

\* a render buffer holding anything, with nothing run on it yet
FnInit ==
    /\ width \in 1 .. MaxWidth
    /\ height \in 1 .. MaxHeight
    /\ incoming \in Priors(RENDER_BUFFER_SIZE(width, height))
    /\ framebuffer = incoming
    /\ populate_count = 0
    /\ constructed = FALSE
    /\ gui = Gui_new
    /\ screen_descriptor = [size_in_pixels |-> InitialWindowSize,
                            pixels_per_point |-> InitialScaleFactor]
    /\ egui_input = {}
    /\ input = input_new
    /\ redraw_requested = FALSE
    /\ control_flow = "Poll"
    /\ image = <<>>
    /\ write_result = "none"
    /\ to_file_calls = 0
    /\ to_file_returned = "none"
    /\ other_buffer = black_buffer(width, height)
    /\ other_rendered = FALSE
    /\ draw_count = 0
    /\ drawn_since_populate = FALSE
    /\ written = {}
    /\ draw_result = "none"
    /\ last_op = "none"
    /\ pass = pass_none

\* ApplicationState::new()
CallNew ==
    /\ ~constructed
    /\ framebuffer' = ApplicationState_new(width, height).framebuffer
    /\ populate_count' = IF ApplicationState_new(width, height).renders = 0
                         THEN populate_count
                         ELSE Bump(populate_count)
    /\ drawn_since_populate' =
          (drawn_since_populate /\ ApplicationState_new(width, height).renders = 0)
    /\ constructed' = TRUE
    /\ last_op' = "new"
    /\ UNCHANGED <<width, height, incoming, pass, frame, guiVars, loopVars, codecVars, otherVars,
                   draw_count, written, draw_result>>

\* render_bg_image(&mut framebuffer)
CallRender ==
    /\ populate_count < MaxCount
    /\ framebuffer' = render_bg_image(framebuffer, width, height)
    /\ populate_count' = Bump(populate_count)
    /\ drawn_since_populate' = FALSE
    /\ last_op' = "render"
    /\ UNCHANGED <<width, height, incoming, pass, frame, guiVars, loopVars, codecVars, otherVars,
                   constructed, draw_count, written, draw_result>>

\* render_bg_image(&mut other_buffer)
CallRenderOther ==
    /\ ~other_rendered
    /\ other_buffer' = render_bg_image(other_buffer, width, height)
    /\ other_rendered' = TRUE
    /\ last_op' = "render_other"
    /\ UNCHANGED <<appVars, pass, guiVars, loopVars, codecVars, drawVars,
                   constructed, populate_count>>

\* app.draw(frame)
CallDraw ==
    /\ draw_count < MaxCount
    /\ frame' = draw(framebuffer, frame)
    /\ written' = draw_written(framebuffer, frame)
    /\ draw_result' = "unit"
    /\ draw_count' = Bump(draw_count)
    /\ drawn_since_populate' = TRUE
    /\ last_op' = "draw"
    /\ UNCHANGED <<width, height, incoming, pass, framebuffer, guiVars, loopVars, codecVars,
                   otherVars, constructed, populate_count>>

\* write_as_exr_image(path, w, h, &framebuffer); to_file_ok is what the write returns
CallWrite(w, h, to_file_ok) ==
    /\ LET out == write_as_exr_image(w, h, framebuffer, to_file_ok)
       IN  /\ image' = out.image
           /\ write_result' = out.result
           /\ to_file_calls' = out.to_file_calls
    /\ to_file_returned' = IF to_file_ok THEN "Ok" ELSE "Err"
    /\ last_op' = "write"
    /\ UNCHANGED <<appVars, pass, guiVars, loopVars, otherVars, drawVars,
                   constructed, populate_count>>

\* a frame of the buffer's dimensions
frames_of_buffer(w, h) == {new_frame(w, h)}

\* a frame of the buffer's dimensions, or of those main builds the surface with
frames_of_surface(w, h) == {new_frame(w, h), new_frame(w, w)}

\* the generator on any buffer
GenNext == CallNew \/ CallRender \/ CallRenderOther

GenInit == FnInit /\ frame \in frames_of_buffer(width, height)

GenSpec == GenInit /\ [][GenNext]_vars

\* draw on any buffer, generated or not
DrawNext == CallNew \/ CallRender \/ CallDraw

DrawInit == FnInit /\ frame \in frames_of_surface(width, height)

DrawSpec == DrawInit /\ [][DrawNext]_vars

\* the codec on any buffer, generated or not, with any width passed, be it
\* the buffer's or not
CodecNext ==
    \/ CallRender
    \/ \E w \in 1 .. MaxWidth, to_file_ok \in BOOLEAN :
          CallWrite(w, height, to_file_ok)

CodecInit == FnInit /\ frame \in frames_of_buffer(width, height)

CodecSpec == CodecInit /\ [][CodecNext]_vars

(* --------------- a generation pass, iteration by iteration -------------- *)

\* render_bg_image is entered: let mut index: usize = 0
PassBegin ==
    /\ ~pass.running
    /\ populate_count < MaxCount
    /\ pass' = [running |-> TRUE, k |-> 0, index |-> 0,
                stores |-> [i \in DOMAIN framebuffer |-> 0]]
    /\ last_op' = "pass_begin"
    /\ UNCHANGED <<appVars, guiVars, loopVars, codecVars, otherVars, drawVars,
                   constructed, populate_count>>

\* one iteration of the inner loop: the four stores, then index += 4
PassStep ==
    /\ pass.running
    /\ pass.k < width * height
    /\ framebuffer' =
          store_pixel(framebuffer, pass.index,
                      pixel_color(loop_x(pass.k, width, height),
                                  loop_y(pass.k, width, height), width, height))
    /\ pass' = [pass EXCEPT
                  !.k = pass.k + 1,
                  !.index = next_index(pass.index),
                  !.stores = [i \in DOMAIN pass.stores |->
                                 IF i \in stored_indices(pass.index)
                                 THEN pass.stores[i] + 1
                                 ELSE pass.stores[i]]]
    /\ last_op' = "pass_step"
    /\ UNCHANGED <<width, height, incoming, frame, guiVars, loopVars, codecVars,
                   otherVars, drawVars, constructed, populate_count>>

\* both loops are done: render_bg_image returns
PassEnd ==
    /\ pass.running
    /\ pass.k = width * height
    /\ pass' = [pass EXCEPT !.running = FALSE]
    /\ populate_count' = Bump(populate_count)
    /\ drawn_since_populate' = FALSE
    /\ last_op' = "render"
    /\ UNCHANGED <<appVars, guiVars, loopVars, codecVars, otherVars, constructed,
                   draw_count, written, draw_result>>

\* app.update()
CallUpdate ==
    /\ framebuffer' = update(framebuffer)
    /\ last_op' = "update"
    /\ UNCHANGED <<width, height, incoming, frame, pass, guiVars, loopVars,
                   codecVars, otherVars, drawVars, constructed, populate_count>>

\* framework.resize(size.width, size.height)
CallResize(size) ==
    /\ screen_descriptor' = Framework_resize(screen_descriptor, size[1], size[2])
    /\ last_op' = "resize"
    /\ UNCHANGED <<appVars, pass, gui, egui_input, loopVars, codecVars, otherVars,
                   drawVars, constructed, populate_count>>

\* framework.scale_factor(scale_factor)
CallScaleFactor(scale) ==
    /\ screen_descriptor' = Framework_scale_factor(screen_descriptor, scale)
    /\ last_op' = "scale_factor"
    /\ UNCHANGED <<appVars, pass, gui, egui_input, loopVars, codecVars, otherVars,
                   drawVars, constructed, populate_count>>

\* framework.handle_event(&event): a click on a widget is handed to egui
CallHandleEvent(widget) ==
    /\ egui_input' = egui_input \cup {widget}
    /\ last_op' = "handle_event"
    /\ UNCHANGED <<appVars, pass, gui, screen_descriptor, loopVars, codecVars,
                   otherVars, drawVars, constructed, populate_count>>

\* framework.prepare(&window): the events egui holds, if any, are drained
\* (take_egui_input) and one egui frame runs with them
CallPrepare ==
    /\ gui' = Gui_ui(gui, egui_input)
    /\ egui_input' = {}
    /\ last_op' = "prepare"
    /\ UNCHANGED <<appVars, pass, screen_descriptor, loopVars, codecVars,
                   otherVars, drawVars, constructed, populate_count>>

\* no render_bg_image call is in progress
BetweenPasses == ~pass.running

\* one thread: a pass runs to its end before any other operation runs
PassNext ==
    \/ PassBegin
    \/ PassStep
    \/ PassEnd
    \/ BetweenPasses /\ CallDraw
    \/ BetweenPasses /\ CallUpdate
    \/ BetweenPasses /\ CallWrite(width, height, TRUE)
    \/ \E size \in WindowSizes : BetweenPasses /\ CallResize(size)
    \/ \E scale \in ScaleFactors : BetweenPasses /\ CallScaleFactor(scale)
    \/ \E widget \in Widgets : BetweenPasses /\ CallHandleEvent(widget)
    \/ BetweenPasses /\ CallPrepare

\* the buffers a pass is run on: one that holds other values than those a
\* pass stores, with a coverage above 1
PassPriors(w, h) ==
    {[i \in 0 .. (RENDER_BUFFER_SIZE(w, h) - 1) |->
         IF i = 3 THEN F32(2) ELSE Rat(1, 2)]}

PassInit ==
    /\ FnInit
    /\ incoming \in PassPriors(width, height)
    /\ frame \in frames_of_buffer(width, height)

PassSpec == PassInit /\ [][PassNext]_vars

(* ------------------------------ properties ----------------------------- *)

\* a + (b - a) * t on one component
Lerp(a, b, t) == FAdd(a, FMul(FSub(b, a), t))

\* the colour the gradient formula gives pixel (x, y), in f32:
\* blend(blend(red, green, u), blend(red, blue, v), 0.5) with u = x / width
\* and v = y / height, whose green is u / 2 and whose blue is v / 2
GradientColor(x, y) ==
    LET u == FDiv(F32(x), F32(width))
        v == FDiv(F32(y), F32(height))
        half == FDiv(F32(1), F32(2))
    IN  [r |-> Lerp(Lerp(F32(1), F32(0), u), Lerp(F32(1), F32(0), v), half),
         g |-> FDiv(u, F32(2)),
         b |-> FDiv(v, F32(2))]

\* the R, G, B stored at an offset of a buffer
ColorAt(buf, offset) ==
    [r |-> buf[offset], g |-> buf[offset + 1], b |-> buf[offset + 2]]

\* C1 as stated: after render_bg_image the colour of pixel (x, y) of the
\* gradient formula is stored at row-major offset 4 * (y * width + x).
C1_RowMajor ==
    populate_count > 0 =>
        \A x \in 0 .. (width - 1), y \in 0 .. (height - 1) :
            ColorAt(framebuffer, 4 * (y * width + x)) = GradientColor(x, y)

\* C1 amended: after render_bg_image the colour of pixel (x, y) of the
\* gradient formula is stored at offset 4 * ((height - 1 - y) * width + x),
\* the rows being stored in descending y, and its coverage is 1.
C1_RowsReversed ==
    populate_count > 0 =>
        \A x \in 0 .. (width - 1), y \in 0 .. (height - 1) :
            LET offset == 4 * ((height - 1 - y) * width + x)
            IN  /\ ColorAt(framebuffer, offset) = GradientColor(x, y)
                /\ framebuffer[offset + 3] = F32(1)

\* a generated buffer of at least two rows and two columns, whose incoming
\* contents were not black
C1_Witness ==
    /\ last_op = "render" /\ populate_count > 0
    /\ width >= 2 /\ height >= 2
    /\ incoming # black_buffer(width, height)

\* C9: two generation passes with the same dimensions and anchors give
\* element-for-element identical buffers, whatever each buffer held before.
C9_Deterministic ==
    (populate_count > 0 /\ other_rendered) => framebuffer = other_buffer

\* both buffers generated, one from black, the other from contents that
\* differ from black in a coverage element
C9_Witness ==
    /\ populate_count > 0 /\ other_rendered /\ ~constructed
    /\ incoming[3] # F32(0)
    /\ other_buffer[3] = F32(1)

\* C2 as stated: the scene buffer has width * height * 4 elements, and the
\* bytes a draw presents are width * height * 4, every one stored by the draw.
C2_PresentedLength ==
    /\ Len0(framebuffer) = width * height * 4
    /\ draw_count > 0 =>
          /\ Len0(frame) = width * height * 4
          /\ written = 0 .. (width * height * 4 - 1)

\* C3: a draw leaves the scene buffer as it was, and a draw that follows
\* another with no generation pass in between leaves the same bytes in the
\* frame; this of every draw the closure makes, before or after it has set
\* ControlFlow::Exit.
C3_DrawPure ==
    [][last_op' = "draw" =>
          /\ framebuffer' = framebuffer
          /\ drawn_since_populate => frame' = frame]_vars

\* a second draw has run, after the closure set ControlFlow::Exit, and stored
\* bytes other than the frame's initial zeros
C3_Witness ==
    /\ last_op = "draw" /\ draw_count >= 2 /\ control_flow = "Exit"
    /\ \E i \in written : i % 4 = 3 /\ frame[i] # u8(0)

\* the samples of the channel of a layer with the given name
Samples(layer, name) ==
    LET i == CHOOSE j \in 1 .. Len(layer.channels) : layer.channels[j].name = name
    IN  layer.channels[i].samples

ChannelNames(layer) == {layer.channels[i].name : i \in 1 .. Len(layer.channels)}

\* C4 as stated: the layer a call builds has exactly the channels R, G and B,
\* all of one length, which is width * height of the resolution passed in.
C4_LengthIsResolution ==
    last_op = "write" =>
        /\ Len(image.channels) = 3
        /\ ChannelNames(image) = {"R", "G", "B"}
        /\ \A name \in ChannelNames(image) :
              Len0(Samples(image, name)) = image.resolution[1] * image.resolution[2]

\* C5: the channels hold the colour elements in pixel order, R[k], G[k], B[k]
\* being elements 4k, 4k+1, 4k+2 of the buffer, and nothing else: three
\* channels of one sample per pixel, so no coverage element is among them.
C5_ChannelsInPixelOrder ==
    last_op = "write" =>
        /\ Len(image.channels) = 3
        /\ ChannelNames(image) = {"R", "G", "B"}
        /\ \A name \in {"R", "G", "B"} :
              DOMAIN Samples(image, name) = 0 .. (width * height - 1)
        /\ \A k \in 0 .. (width * height - 1) :
              /\ Samples(image, "R")[k] = framebuffer[4 * k]
              /\ Samples(image, "G")[k] = framebuffer[4 * k + 1]
              /\ Samples(image, "B")[k] = framebuffer[4 * k + 2]

\* a layer built from a buffer of several pixels in which a coverage differs
\* from the blue next to it
C5_Witness ==
    /\ last_op = "write" /\ width * height >= 2
    /\ \E k \in 0 .. (width * height - 1) :
          framebuffer[4 * k + 3] # framebuffer[4 * k + 2]

\* C6: a call attempts the file write once, returns Err when it failed and
\* Ok when it succeeded.
C6_WriteResult ==
    last_op = "write" =>
        /\ to_file_calls = 1
        /\ to_file_returned = "Err" => write_result = "Err"
        /\ to_file_returned = "Ok" => write_result = "Ok"

\* a call whose file write failed
C6_Witness ==
    last_op = "write" /\ to_file_returned = "Err" /\ to_file_calls = 1

DrawnPixels == {i \div 4 : i \in written}

\* C8: the alpha byte of a drawn pixel is decided by its coverage alone (two
\* pixels of equal coverage get equal alpha, whatever their colours), is 0 for
\* coverage <= 0 and 255 for coverage >= 1, and the buffer keeps its values.
C8_AlphaClamped ==
    last_op = "draw" =>
        /\ \A p \in DrawnPixels :
              LET coverage == framebuffer[4 * p + 3]
              IN  /\ FLe(coverage, F32(0)) => frame[4 * p + 3] = u8(0)
                  /\ FLe(F32(1), coverage) => frame[4 * p + 3] = u8(255)
                  /\ frame[4 * p + 3].u8 \in 0 .. 255
                  /\ \A q \in DrawnPixels :
                        framebuffer[4 * q + 3] = coverage =>
                            frame[4 * q + 3] = frame[4 * p + 3]
        /\ populate_count = 0 => framebuffer = incoming

\* a draw of two pixels of equal coverage above 1 and different red
C8_Witness ==
    /\ last_op = "draw" /\ populate_count = 0
    /\ \E p \in DrawnPixels, q \in DrawnPixels :
          /\ framebuffer[4 * p + 3] = F32(2)
          /\ framebuffer[4 * q + 3] = F32(2)
          /\ framebuffer[4 * p] # framebuffer[4 * q]
          /\ frame[4 * p + 3] = u8(255)

\* C10 as stated: once the Render button has set should_rerender, a
\* generation pass runs again unless the closure sets ControlFlow::Exit
\* first; and a pass runs only on such a request.
C10_RerenderHappens ==
    /\ \A n \in 0 .. MaxCount :
          (gui.should_rerender /\ populate_count = n /\ control_flow = "Poll")
              ~> (populate_count > n \/ control_flow # "Poll")
    /\ [][populate_count' # populate_count => gui.should_rerender]_vars

\* C11: a generation pass stores into every element of the buffer exactly
\* once, its write index starting at 0, advancing by 4 per pixel, staying
\* within the buffer and ending at width * height * 4; and no operation other
\* than the stores of a pass changes any element of the buffer.
C11_WrittenOncePerPass ==
    /\ [](pass.running =>
            /\ pass.index = 4 * pass.k
            /\ pass.index <= Len0(framebuffer)
            /\ pass.k < width * height =>
                  stored_indices(pass.index) \subseteq DOMAIN framebuffer
            /\ \A i \in DOMAIN framebuffer :
                  pass.stores[i] = IF i < pass.index THEN 1 ELSE 0)
    /\ [](last_op = "render" =>
            /\ pass.index = width * height * 4
            /\ pass.index = Len0(framebuffer)
            /\ \A i \in DOMAIN framebuffer : pass.stores[i] = 1)
    /\ [][last_op' # "pass_step" => framebuffer' = framebuffer]_vars

\* a pass over several pixels of a buffer that was not black has ended, and a
\* draw and a file write have run since
C11_Witness ==
    /\ populate_count > 0 /\ ~pass.running
    /\ pass.index = width * height * 4
    /\ width * height >= 2
    /\ incoming # black_buffer(width, height)
    /\ last_op = "write" /\ draw_count > 0

====
